---- MODULE Spec2Model ----
(***************************************************************************)
(* A model of the proximity-unlock state machine of the "detour obscura"   *)
(* map application (src/src/App.tsx, first module: the main variant with    *)
(* the 150 m radius).                                                       *)
(*                                                                          *)
(* Conventions                                                              *)
(*  - A JavaScript value is a record [t, s, a]: t is its type tag, s the    *)
(*    text of a string value, a the elements of an array value.  Array      *)
(*    elements are JavaScript strings, written as TLA+ strings.             *)
(*  - The text kept in localStorage is a sequence of JSON tokens [k, s].    *)
(*  - Coordinates are fixed-point degrees, in units of 1e-5 degree.         *)
(*    Distances are in decimetres.                                          *)
(*  - One action is one event-loop task of the browser: the handler, the    *)
(*    re-render it causes and the effects of that render, in the order in   *)
(*    which the component declares them.                                    *)
(***************************************************************************)
EXTENDS Integers, Sequences, FiniteSets, TLC

(***************************************************************************)
(* Bounds of the model.                                                     *)
(***************************************************************************)
\* longest list of ids found in localStorage before the first session
MaxStoredLen == 1

(***************************************************************************)
(* The catalog (LOCATIONS) and the constants of the module.                 *)
(***************************************************************************)
LOCATIONS == << "nicolas-flamel", "synagogue-pavee", "cafe-suedois" >>

LocationIds == { LOCATIONS[i] : i \in 1..Len(LOCATIONS) }

\* coordinates: [lng, lat] of the source, here in units of 1e-5 degree
LocLat(id) ==
  CASE id = "nicolas-flamel"  -> 4886190
    [] id = "synagogue-pavee" -> 4885510
    [] id = "cafe-suedois"    -> 4885740

LocLng(id) ==
  CASE id = "nicolas-flamel"  -> 235490
    [] id = "synagogue-pavee" -> 235890
    [] id = "cafe-suedois"    -> 236170

\* location.timeline.length: every location of the catalog has four events
TimelineLength(id) ==
  CASE id = "nicolas-flamel"  -> 4
    [] id = "synagogue-pavee" -> 4
    [] id = "cafe-suedois"    -> 4

UNLOCK_RADIUS == 150

\* const R = 6371000 (metres)
EarthRadius == 6371000

\* the id that the loader always unlocks
DefaultId == "nicolas-flamel"

\* a stored id of an earlier catalog version, no longer in LOCATIONS
StaleId == "tour-saint-jacques"

(***************************************************************************)
(* JavaScript values.                                                       *)
(***************************************************************************)
JsArray(elems) == [t |-> "array", s |-> "", a |-> elems]
JsString(text) == [t |-> "string", s |-> text, a |-> << >>]
JsOther(tag) == [t |-> tag, s |-> "", a |-> << >>]

\* the characters of the strings the model uses
Chars(text) ==
  CASE text = "nicolas-flamel" ->
         << "n","i","c","o","l","a","s","-","f","l","a","m","e","l" >>
    [] text = "synagogue-pavee" ->
         << "s","y","n","a","g","o","g","u","e","-","p","a","v","e","e" >>
    [] text = "cafe-suedois" ->
         << "c","a","f","e","-","s","u","e","d","o","i","s" >>
    [] text = "tour-saint-jacques" ->
         << "t","o","u","r","-","s","a","i","n","t","-","j","a","c","q","u","e","s" >>
    [] text = "paris" -> << "p","a","r","i","s" >>
    [] text = "" -> << >>
    [] OTHER -> << text >>

\* String.prototype.includes: needle occurs in hay as a substring
IsSubstring(needle, hay) ==
  \E i \in 0..(Len(hay) - Len(needle)) :
    \A j \in 1..Len(needle) : hay[i + j] = needle[j]

\* Array.prototype.includes
SeqIncludes(elems, x) == \E i \in 1..Len(elems) : elems[i] = x

\* value.includes(id), for the two types of value that have the method
Includes(value, id) ==
  IF value.t = "array"
  THEN SeqIncludes(value.a, id)
  ELSE IsSubstring(Chars(id), Chars(value.s))

\* [...value]: the elements of an array, the characters of a string
Spread(value) == IF value.t = "array" THEN value.a ELSE Chars(value.s)

\* value.length
JsLength(value) == Len(Spread(value))

\* Array.from(new Set(elems)): first occurrences, in insertion order
RECURSIVE Dedup(_)
Dedup(elems) ==
  IF elems = << >> THEN << >>
  ELSE LET front == Dedup(SubSeq(elems, 1, Len(elems) - 1))
           last == elems[Len(elems)]
       IN IF SeqIncludes(front, last) THEN front ELSE Append(front, last)

(***************************************************************************)
(* JSON text: JSON.stringify and JSON.parse on the values of the model.     *)
(***************************************************************************)
Tok(kind) == [k |-> kind, s |-> ""]
StrTok(text) == [k |-> "str", s |-> text]

RECURSIVE StringifyElems(_)
StringifyElems(elems) ==
  IF elems = << >> THEN << >>
  ELSE IF Len(elems) = 1 THEN << StrTok(elems[1]) >>
  ELSE << StrTok(elems[1]), Tok(",") >> \o StringifyElems(Tail(elems))

\* JSON.stringify(value)
JSONstringify(value) ==
  CASE value.t = "array"   -> << Tok("[") >> \o StringifyElems(value.a) \o << Tok("]") >>
    [] value.t = "string"  -> << StrTok(value.s) >>
    [] value.t = "null"    -> << Tok("null") >>
    [] value.t = "number"  -> << Tok("num") >>
    [] value.t = "boolean" -> << Tok("true") >>
    [] value.t = "object"  -> << Tok("{"), Tok("}") >>
    [] OTHER               -> << Tok("undefined") >>   \* setItem stores 'undefined'

\* the elements between "[" and "]": str (, str)*  -- ok is FALSE on a syntax error
RECURSIVE ParseElems(_)
ParseElems(toks) ==
  IF toks = << >> THEN [ok |-> FALSE, a |-> << >>]
  ELSE IF toks[1].k # "str" THEN [ok |-> FALSE, a |-> << >>]
  ELSE IF Len(toks) = 1 THEN [ok |-> TRUE, a |-> << toks[1].s >>]
  ELSE IF toks[2].k # "," THEN [ok |-> FALSE, a |-> << >>]
  ELSE LET rest == ParseElems(SubSeq(toks, 3, Len(toks)))
       IN [ok |-> rest.ok, a |-> << toks[1].s >> \o rest.a]

\* JSON.parse(text): ok is FALSE when it throws a SyntaxError
JSONparse(toks) ==
  LET fail == [ok |-> FALSE, v |-> JsOther("undefined")]
      n == Len(toks)
  IN IF n = 0 THEN fail
     ELSE IF n = 1 THEN
       CASE toks[1].k = "str"  -> [ok |-> TRUE, v |-> JsString(toks[1].s)]
         [] toks[1].k = "null" -> [ok |-> TRUE, v |-> JsOther("null")]
         [] toks[1].k = "num"  -> [ok |-> TRUE, v |-> JsOther("number")]
         [] toks[1].k = "true" -> [ok |-> TRUE, v |-> JsOther("boolean")]
         [] OTHER -> fail
     ELSE IF toks[1].k = "{" THEN
       IF n = 2 /\ toks[2].k = "}" THEN [ok |-> TRUE, v |-> JsOther("object")] ELSE fail
     ELSE IF toks[1].k = "[" /\ toks[n].k = "]" THEN
       IF n = 2 THEN [ok |-> TRUE, v |-> JsArray(<< >>)]
       ELSE LET body == ParseElems(SubSeq(toks, 2, n - 1))
            IN IF body.ok THEN [ok |-> TRUE, v |-> JsArray(body.a)] ELSE fail
     ELSE fail

(***************************************************************************)
(* localStorage: the item 'detour-unlocked'.                                *)
(***************************************************************************)
\* getItem returns null: the key is absent
NoItem == [present |-> FALSE, text |-> << >>]
Item(toks) == [present |-> TRUE, text |-> toks]

\* the values found under the key before the first session
RECURSIVE ListsUpTo(_, _)
ListsUpTo(elems, n) ==
  IF n = 0 THEN { << >> }
  ELSE LET shorter == ListsUpTo(elems, n - 1)
       IN shorter \cup { Append(l, e) : l \in shorter, e \in elems }

StoredLists == ListsUpTo(LocationIds \cup {StaleId}, MaxStoredLen)

StoredItems ==
  { NoItem,
    Item(<< >>),                                 \* the empty string
    Item(<< Tok("[") >>),                        \* truncated text
    Item(<< Tok("["), StrTok(DefaultId), Tok(","), Tok("]") >>),
    Item(JSONstringify(JsOther("null"))),
    Item(JSONstringify(JsOther("number"))),
    Item(JSONstringify(JsOther("boolean"))),
    Item(JSONstringify(JsOther("object"))),
    Item(JSONstringify(JsString("paris"))),
    Item(JSONstringify(JsString(DefaultId))) }
  \cup { Item(JSONstringify(JsArray(l))) : l \in StoredLists }
  \cup { Item(JSONstringify(JsArray(<< "cafe-suedois", "cafe-suedois" >>))) }

(***************************************************************************)
(* getDistanceMeters: the haversine formula in fixed point.                 *)
(*                                                                          *)
(* The arguments are in units of 1e-5 degree and the result is in           *)
(* decimetres.  For the separations of the model (below 3 km) the angles    *)
(* d-phi/2 and d-lambda/2 are below 3e-4 rad, where sin x = x and           *)
(* atan2(sqrt a, sqrt(1-a)) = sqrt a to a relative error below 1e-7, so     *)
(*   R * 2 * atan2(sqrt a, sqrt(1-a))                                       *)
(*     = R * sqrt(d-phi^2 + cos(phi1) * cos(phi2) * d-lambda^2).            *)
(* The cosine is linearised about 48.86 degrees.  Every step rounds to the  *)
(* nearest unit; the result is within 0.3 m of the floating-point value     *)
(* over the area of the catalog and exact to 0.05 m on a meridian.          *)
(***************************************************************************)
Abs(x) == IF x < 0 THEN -x ELSE x

\* a / b rounded to the nearest integer (b > 0)
RoundDiv(a, b) == (a + b \div 2) \div b

RECURSIVE SqrtFloor(_, _, _)
SqrtFloor(n, lo, hi) ==
  IF lo >= hi THEN lo
  ELSE LET mid == (lo + hi + 1) \div 2
       IN IF mid * mid <= n THEN SqrtFloor(n, mid, hi) ELSE SqrtFloor(n, lo, mid - 1)

\* Math.sqrt, rounded to the nearest integer (n < 2^31)
Sqrt(n) ==
  LET r == SqrtFloor(n, 0, 46340)
  IN IF n - r * r > r THEN r + 1 ELSE r

\* R * Math.PI / 180, per 1e-5 degree, in micrometres (pi/180 = 0.0174533)
MicroMetersPerUnit == ((EarthRadius \div 1000) * 174533) \div 1000

\* 10^4 * Math.cos(lat * Math.PI / 180), for lat about 48.86 degrees
CosE4(lat) == 6579 - RoundDiv((lat - 4886000) * 1314, 10000000)

\* getDistanceMeters without the factor 2 of R * 2 * atan2(...)
getDistanceMetersHalved(lat1, lng1, lat2, lng2) ==
  LET north == RoundDiv(Abs(lat2 - lat1) * MicroMetersPerUnit, 100000)
      flat == RoundDiv(Abs(lng2 - lng1) * MicroMetersPerUnit, 100000)
      cosines == Sqrt(CosE4(lat1) * CosE4(lat2))
      east == RoundDiv(flat * cosines, 10000)
  IN Sqrt(north * north + east * east) \div 2

getDistanceMeters(lat1, lng1, lat2, lng2) ==
  LET north == RoundDiv(Abs(lat2 - lat1) * MicroMetersPerUnit, 100000)
      flat == RoundDiv(Abs(lng2 - lng1) * MicroMetersPerUnit, 100000)
      cosines == Sqrt(CosE4(lat1) * CosE4(lat2))
      east == RoundDiv(flat * cosines, 10000)
  IN Sqrt(north * north + east * east)

(***************************************************************************)
(* The positions that the location sensor reports: <<lat, lng>>.            *)
(***************************************************************************)
\* 150.0 m from the Swedish Institute: on the boundary of its radius
PosCafeEdge == << 4885853, 236058 >>
\* at the synagogue
PosSynagogue == << 4885510, 235890 >>
\* 0.00135 degree due north of the Flamel house
PosFlamelNorth == << 4886190 + 135, 235490 >>

UserPositions == { PosCafeEdge, PosSynagogue, PosFlamelNorth }

NoPosition == << >>
NoLocation == "none"

(***************************************************************************)
(* The unlock store.                                                        *)
(***************************************************************************)
DefaultUnlocked == JsArray(<< DefaultId >>)

\* PushDefault with unshift in the place of push
PushDefaultFront(parsed) ==
  IF parsed.t \notin {"array", "string"}
  THEN [ok |-> FALSE, v |-> parsed]
  ELSE IF Includes(parsed, DefaultId)
  THEN [ok |-> TRUE, v |-> parsed]
  ELSE IF parsed.t = "array"
  THEN [ok |-> TRUE, v |-> JsArray(<< DefaultId >> \o parsed.a)]
  ELSE [ok |-> FALSE, v |-> parsed]

\* lines 377-379: if (!parsed.includes(id)) parsed.push(id); ok is FALSE when
\* the statement throws a TypeError
PushDefault(parsed) ==
  IF parsed.t \notin {"array", "string"}
  THEN [ok |-> FALSE, v |-> parsed]              \* parsed.includes is not a function
  ELSE IF Includes(parsed, DefaultId)
  THEN [ok |-> TRUE, v |-> parsed]
  ELSE IF parsed.t = "array"
  THEN [ok |-> TRUE, v |-> JsArray(Append(parsed.a, DefaultId))]
  ELSE [ok |-> FALSE, v |-> parsed]              \* parsed.push is not a function

\* the initializer of the unlockedIds state: the value it returns
InitialUnlockedIds(item) ==
  IF ~item.present \/ item.text = << >>
  THEN DefaultUnlocked
  ELSE LET parsed == JSONparse(item.text)
       IN IF ~parsed.ok THEN DefaultUnlocked
          ELSE LET pushed == PushDefault(parsed.v)
               IN IF pushed.ok THEN pushed.v ELSE DefaultUnlocked

\* the ids of the locations within the radius, in catalog order
NearbyIds(userLat, userLng) ==
  SelectSeq(LOCATIONS,
            LAMBDA id : getDistanceMeters(userLat, userLng, LocLat(id), LocLng(id))
                          <= UNLOCK_RADIUS * 10)

\* updateUnlockedLocations computes nearbyIds from the position it is given
NearbyAt == [pos \in UserPositions |-> NearbyIds(pos[1], pos[2])]

\* the updater given to setUnlockedIds: Array.from(new Set([...prev, ...nearbyIds]))
MergeUnlocked(prev, nearbyIds) == JsArray(Dedup(Spread(prev) \o nearbyIds))

\* the value that the save effect hands to localStorage.setItem
SavedItem(ids) == Item(JSONstringify(ids))

(***************************************************************************)
(* The state of the App component and of its environment.                   *)
(***************************************************************************)
VARIABLES
  stored,            \* localStorage item 'detour-unlocked'
  mounted,           \* the page is open and the component is mounted
  unlockedIds,       \* useState: the unlock store
  unlockedIdsRef,    \* useRef: the copy that the Leaflet handlers read (in
                     \* part_001: the unlockedIds that they closed over)
  selectedLocation,  \* useState: location shown in the detail card, or none
  lockedLocation,    \* useState: location shown in the locked card, or none
  infoLayer,         \* useState: index of the layer shown in the detail card
  showTracker,       \* useState: the tracker panel is open
  userPosition,      \* useState: last position reported, or none
  showSplash,        \* useState: the splash screen is shown
  mapInstance,       \* useRef: the Leaflet map exists
  fixPending,        \* getCurrentPosition has been asked and has not answered
  saveThrew,         \* the last localStorage.setItem threw (console.error)
  geolocation,       \* navigator.geolocation exists in this browser
  watching,          \* a watchPosition subscription is registered
  markers,           \* markersRef: the ids whose marker has the unlocked icon
  fixThrew,          \* the success callback of getCurrentPosition threw
  pending            \* positions whose state updates wait for the next render

vars == << stored, mounted, unlockedIds, unlockedIdsRef, selectedLocation,
           lockedLocation, infoLayer, showTracker, userPosition, showSplash,
           mapInstance, fixPending, saveThrew, geolocation, watching, markers,
           fixThrew, pending >>

viewVars == << selectedLocation, lockedLocation, infoLayer, showTracker >>
storeVars == << stored, unlockedIds, unlockedIdsRef, saveThrew >>
mapVars == << showSplash, mapInstance, fixPending, geolocation, watching,
             markers, fixThrew, pending >>

\* no component, no value
Undefined == JsOther("undefined")

\* what the render shows (lines 651, 677, 720, 731)
AppRendered == mounted /\ ~showSplash
TrackerRendered == AppRendered /\ showTracker
InfoCardRendered == AppRendered /\ selectedLocation # NoLocation /\ ~showTracker
LockedCardRendered == AppRendered /\ lockedLocation # NoLocation /\ ~showTracker

\* location.id is unlocked, as every reader of the store tests it
IsUnlocked(ids, id) == Includes(ids, id)

\* the ids for which updateMarkers (lines 437-443) and the creation of the
\* markers (lines 476-479) choose createPinIcon, given the list they read
UnlockedIcons(ids) == { id \in LocationIds : Includes(ids, id) }

\* updateMarkers(zoom): every marker is restyled from unlockedIdsRef.current
updateMarkers(ref) == markers' = UnlockedIcons(ref)

\* SaveEffect writing the list of the previous render
SaveEffectStale(ids, writeOk) ==
  /\ unlockedIdsRef' = ids
  /\ stored' = IF writeOk THEN SavedItem(unlockedIds) ELSE stored
  /\ saveThrew' = ~writeOk

\* SaveEffect with the ref synchronised after setItem, inside the try block
SaveEffectSyncAfterWrite(ids, writeOk) ==
  /\ unlockedIdsRef' = IF writeOk THEN ids ELSE unlockedIdsRef
  /\ stored' = IF writeOk THEN SavedItem(ids) ELSE stored
  /\ saveThrew' = ~writeOk

\* SaveEffect without the synchronisation of the ref
SaveEffectNoRefSync(ids, writeOk) ==
  /\ UNCHANGED unlockedIdsRef
  /\ stored' = IF writeOk THEN SavedItem(ids) ELSE stored
  /\ saveThrew' = ~writeOk

(* The save effect (lines 401-408), run after a render in which unlockedIds *)
(* is a new value: the ref is synchronised, then the item is written unless *)
(* setItem throws (writeOk is FALSE), which is caught and logged.           *)
SaveEffect(ids, writeOk) ==
  /\ unlockedIdsRef' = ids
  /\ stored' = IF writeOk THEN SavedItem(ids) ELSE stored
  /\ saveThrew' = ~writeOk

\* before the first session: the page is closed, localStorage holds an item
Init ==
  /\ stored \in StoredItems
  /\ mounted = FALSE
  /\ unlockedIds = Undefined
  /\ unlockedIdsRef = Undefined
  /\ selectedLocation = NoLocation
  /\ lockedLocation = NoLocation
  /\ infoLayer = 0
  /\ showTracker = FALSE
  /\ userPosition = NoPosition
  /\ showSplash = TRUE
  /\ mapInstance = FALSE
  /\ fixPending = FALSE
  /\ saveThrew = FALSE
  /\ geolocation \in BOOLEAN
  /\ watching = FALSE
  /\ markers = { }
  /\ fixThrew = FALSE
  /\ pending = << >>

(* The page is opened: the state initializers run (lines 355-392), the      *)
(* splash is rendered and the effects of the first render run.              *)
Mount ==
  /\ ~mounted
  /\ ~fixPending
  /\ ~watching
  /\ mounted' = TRUE
  /\ unlockedIds' = InitialUnlockedIds(stored)
  /\ \E writeOk \in BOOLEAN : SaveEffect(unlockedIds', writeOk)
  /\ UNCHANGED << viewVars, userPosition, mapVars >>

\* the page is closed or reloaded: localStorage is all that is left, and the
\* browser drops the geolocation requests of the page
ClosePage ==
  /\ mounted \/ fixPending \/ watching
  /\ mounted' = FALSE
  /\ unlockedIds' = Undefined
  /\ unlockedIdsRef' = Undefined
  /\ selectedLocation' = NoLocation
  /\ lockedLocation' = NoLocation
  /\ infoLayer' = 0
  /\ showTracker' = FALSE
  /\ userPosition' = NoPosition
  /\ showSplash' = TRUE
  /\ mapInstance' = FALSE
  /\ fixPending' = FALSE
  /\ saveThrew' = FALSE
  /\ watching' = FALSE
  /\ markers' = { }
  /\ fixThrew' = FALSE
  /\ pending' = << >>
  /\ UNCHANGED << stored, geolocation >>

(* The component is unmounted while the page stays open: the cleanup of the  *)
(* map effect runs (lines 571-585), clearWatch releases the subscription    *)
(* whose id watchIdRef holds, and the state of the component is dropped.     *)
(* A getCurrentPosition request that has not answered cannot be cancelled.   *)
Teardown ==
  /\ mounted
  /\ mounted' = FALSE
  /\ unlockedIds' = Undefined
  /\ unlockedIdsRef' = Undefined
  /\ selectedLocation' = NoLocation
  /\ lockedLocation' = NoLocation
  /\ infoLayer' = 0
  /\ showTracker' = FALSE
  /\ userPosition' = NoPosition
  /\ showSplash' = TRUE
  /\ mapInstance' = FALSE
  /\ saveThrew' = FALSE
  /\ watching' = FALSE
  /\ markers' = { }
  /\ UNCHANGED << stored, fixPending, geolocation, fixThrew, pending >>

\* the splash timer fires (line 448); the map effect then creates the map,
\* the markers and, if (navigator.geolocation), the two geolocation requests
\* (lines 456-569)
HideSplash ==
  /\ mounted
  /\ showSplash
  /\ showSplash' = FALSE
  /\ mapInstance' = TRUE
  /\ fixPending' = geolocation
  /\ watching' = geolocation
  /\ fixThrew' = FALSE
  /\ updateMarkers(unlockedIdsRef)
  /\ UNCHANGED << stored, mounted, unlockedIds, unlockedIdsRef, saveThrew,
                  viewVars, userPosition, geolocation, pending >>

\* MarkerEffect run before the save effect has synchronised the ref
MarkerEffectBeforeSync == updateMarkers(unlockedIdsRef)

\* the marker-update effect (lines 589-594): it is declared after the save
\* effect, so it reads the ref that the save effect has just synchronised
MarkerEffect == updateMarkers(unlockedIdsRef')

(* updateUnlockedLocations(lat, lng) (lines 421-434) and the render that    *)
(* follows: the updater makes a new array on every call, so the save        *)
(* effect runs.                                                             *)
updateUnlockedLocations(pos, writeOk) ==
  /\ unlockedIds' = MergeUnlocked(unlockedIds, NearbyAt[pos])
  /\ SaveEffect(unlockedIds', writeOk)
  /\ MarkerEffect

\* success callback of getCurrentPosition (lines 507-547)
CurrentPosition ==
  /\ mapInstance
  /\ fixPending
  /\ \E pos \in UserPositions, writeOk \in BOOLEAN :
       /\ userPosition' = pos
       /\ updateUnlockedLocations(pos, writeOk)
  /\ fixPending' = FALSE
  /\ UNCHANGED << mounted, viewVars, showSplash, mapInstance, geolocation,
                  fixThrew, pending,
                  watching >>

\* CurrentPositionError that falls back to a fixed position
CurrentPositionErrorFallback ==
  /\ mapInstance
  /\ fixPending
  /\ \E writeOk \in BOOLEAN :
       /\ userPosition' = PosSynagogue
       /\ updateUnlockedLocations(PosSynagogue, writeOk)
  /\ fixPending' = FALSE
  /\ UNCHANGED << mounted, viewVars, showSplash, mapInstance, geolocation,
                  fixThrew, pending,
                  watching >>

\* error callback of getCurrentPosition (lines 548-550): the fix failed or
\* the 10 s timeout passed; the error is logged
CurrentPositionError ==
  /\ mapInstance
  /\ fixPending
  /\ fixPending' = FALSE
  /\ UNCHANGED << mounted, storeVars, viewVars, userPosition, showSplash,
                  mapInstance, geolocation,
                  markers, fixThrew, pending, watching >>

\* error callback of watchPosition (line 566): the error is logged
WatchPositionError ==
  /\ watching
  /\ UNCHANGED vars

\* success callback of watchPosition (lines 556-565)
WatchPosition ==
  /\ watching
  /\ \E pos \in UserPositions, writeOk \in BOOLEAN :
       /\ userPosition' = pos
       /\ updateUnlockedLocations(pos, writeOk)
  /\ UNCHANGED << mounted, viewVars, showSplash, mapInstance, fixPending,
                  geolocation, watching, fixThrew, pending >>

(* The success callback of getCurrentPosition delivered after the cleanup   *)
(* of the map effect: the request cannot be cancelled and the callback does *)
(* not test mapInstance.current.  It writes userLocationRef, its setState   *)
(* calls are ignored by the unmounted component, and                        *)
(* L.circleMarker(...).addTo(mapInstance.current!) (line 519) throws a      *)
(* TypeError on null.                                                       *)
CurrentPositionAfterTeardown ==
  /\ ~mounted
  /\ fixPending
  /\ fixPending' = FALSE
  /\ fixThrew' = TRUE
  /\ UNCHANGED << mounted, storeVars, viewVars, userPosition, showSplash,
                  mapInstance, geolocation, watching, markers, pending >>

\* the zoomend handler of the map (lines 499-502): updateMarkers(zoom)
ZoomEnd ==
  /\ mapInstance
  /\ updateMarkers(unlockedIdsRef)
  /\ UNCHANGED << mounted, storeVars, viewVars, userPosition, showSplash,
                  mapInstance, fixPending, geolocation, watching, fixThrew,
                  pending >>

\* MarkerClickOn that leaves the other card's location as it was
MarkerClickOnKeepOther(id) ==
  IF Includes(unlockedIdsRef, id)
  THEN /\ selectedLocation' = id
       /\ infoLayer' = 0
       /\ UNCHANGED lockedLocation
  ELSE /\ lockedLocation' = id
       /\ UNCHANGED << selectedLocation, infoLayer >>

\* the click handler of the marker of location id (lines 482-493)
MarkerClickOn(id) ==
  IF Includes(unlockedIdsRef, id)
  THEN /\ selectedLocation' = id
       /\ lockedLocation' = NoLocation
       /\ infoLayer' = 0
  ELSE /\ lockedLocation' = id
       /\ selectedLocation' = NoLocation
       /\ UNCHANGED infoLayer

MarkerClick ==
  /\ mapInstance
  /\ \E id \in LocationIds : MarkerClickOn(id)
  /\ UNCHANGED << mounted, storeVars, showTracker, userPosition, mapVars >>

\* click on an item of the tracker list (lines 690-705)
TrackerItemClick ==
  /\ TrackerRendered
  /\ \E id \in LocationIds :
       IF IsUnlocked(unlockedIds, id)
       THEN /\ selectedLocation' = id
            /\ lockedLocation' = NoLocation
            /\ infoLayer' = 0
            /\ showTracker' = FALSE
       ELSE UNCHANGED viewVars
  /\ UNCHANGED << mounted, storeVars, userPosition, mapVars >>

\* ToggleTracker that drops the selection when the panel opens
ToggleTrackerDropsCard ==
  /\ AppRendered
  /\ showTracker' = ~showTracker
  /\ selectedLocation' = NoLocation
  /\ infoLayer' = 0
  /\ UNCHANGED << mounted, storeVars, lockedLocation, userPosition, mapVars >>

\* click on the status badge (line 670)
ToggleTracker ==
  /\ AppRendered
  /\ showTracker' = ~showTracker
  /\ UNCHANGED << mounted, storeVars, selectedLocation, lockedLocation, infoLayer,
                  userPosition, mapVars >>

\* click on the close button of the tracker panel (line 681)
CloseTracker ==
  /\ TrackerRendered
  /\ showTracker' = FALSE
  /\ UNCHANGED << mounted, storeVars, selectedLocation, lockedLocation, infoLayer,
                  userPosition, mapVars >>

\* handleCloseCard that also resets the unlock store
handleCloseCardResetsStore ==
  /\ InfoCardRendered
  /\ selectedLocation' = NoLocation
  /\ infoLayer' = 0
  /\ unlockedIds' = DefaultUnlocked
  /\ UNCHANGED << mounted, stored, unlockedIdsRef, saveThrew, lockedLocation,
                  showTracker, userPosition, mapVars >>

\* handleCloseCard (lines 596-599), the onClose of the detail card
handleCloseCard ==
  /\ InfoCardRendered
  /\ selectedLocation' = NoLocation
  /\ infoLayer' = 0
  /\ UNCHANGED << mounted, storeVars, lockedLocation, showTracker, userPosition,
                  mapVars >>

\* onClose of the locked card (line 735)
CloseLockedCard ==
  /\ LockedCardRendered
  /\ lockedLocation' = NoLocation
  /\ UNCHANGED << mounted, storeVars, selectedLocation, infoLayer, showTracker,
                  userPosition, mapVars >>

Max(a, b) == IF a >= b THEN a ELSE b
Min(a, b) == IF a <= b THEN a ELSE b

\* handlePrevLayer without Math.max
handlePrevLayerNoClamp ==
  /\ InfoCardRendered
  /\ infoLayer' = infoLayer - 1
  /\ UNCHANGED << mounted, storeVars, selectedLocation, lockedLocation, showTracker,
                  userPosition, mapVars >>

\* handlePrevLayer (lines 601-603)
handlePrevLayer ==
  /\ InfoCardRendered
  /\ infoLayer' = Max(0, infoLayer - 1)
  /\ UNCHANGED << mounted, storeVars, selectedLocation, lockedLocation, showTracker,
                  userPosition, mapVars >>

\* handleNextLayer clamped to the number of layers, one past the last index
handleNextLayerOnePast ==
  /\ InfoCardRendered
  /\ infoLayer' = Min(infoLayer + 1, TimelineLength(selectedLocation) + 1)
  /\ UNCHANGED << mounted, storeVars, selectedLocation, lockedLocation, showTracker,
                  userPosition, mapVars >>

\* handleNextLayer (lines 605-610)
handleNextLayer ==
  /\ InfoCardRendered
  /\ infoLayer' = Min(infoLayer + 1, TimelineLength(selectedLocation))
  /\ UNCHANGED << mounted, storeVars, selectedLocation, lockedLocation, showTracker,
                  userPosition, mapVars >>

Next ==
  \/ Mount
  \/ ClosePage
  \/ Teardown
  \/ HideSplash
  \/ CurrentPosition
  \/ CurrentPositionError
  \/ WatchPosition
  \/ WatchPositionError
  \/ CurrentPositionAfterTeardown
  \/ ZoomEnd
  \/ MarkerClick
  \/ TrackerItemClick
  \/ ToggleTracker
  \/ CloseTracker
  \/ handleCloseCard
  \/ CloseLockedCard
  \/ handlePrevLayer
  \/ handleNextLayer

Spec == Init /\ [][Next]_vars

(***************************************************************************)
(* The main variant when React renders after several position callbacks:    *)
(* each callback queues its updaters, and one render applies them in order. *)
(***************************************************************************)
\* the callbacks that one render may find queued
MaxPending == 2

\* the updaters of setUnlockedIds queued by the callbacks at the positions,
\* applied in order, each to the value that the one before it returned
RECURSIVE ApplyUpdaters(_, _)
ApplyUpdaters(prev, positions) ==
  IF positions = << >> THEN prev
  ELSE ApplyUpdaters(MergeUnlocked(prev, NearbyAt[Head(positions)]),
                     Tail(positions))

\* success callback of getCurrentPosition, the render not yet done
QueueCurrentPosition ==
  /\ mapInstance
  /\ fixPending
  /\ Len(pending) < MaxPending
  /\ \E pos \in UserPositions : pending' = Append(pending, pos)
  /\ fixPending' = FALSE
  /\ UNCHANGED << mounted, storeVars, viewVars, userPosition, showSplash,
                  mapInstance, geolocation, watching, markers, fixThrew >>

\* success callback of watchPosition, the render not yet done
QueueWatchPosition ==
  /\ watching
  /\ Len(pending) < MaxPending
  /\ \E pos \in UserPositions : pending' = Append(pending, pos)
  /\ UNCHANGED << mounted, storeVars, viewVars, userPosition, showSplash,
                  mapInstance, fixPending, geolocation, watching, markers,
                  fixThrew >>

\* the render of the queued updates and its effects: setUserPosition keeps
\* the last position, the updaters of setUnlockedIds are applied in order
Render ==
  /\ mounted
  /\ pending # << >>
  /\ userPosition' = pending[Len(pending)]
  /\ unlockedIds' = ApplyUpdaters(unlockedIds, pending)
  /\ \E writeOk \in BOOLEAN : SaveEffect(unlockedIds', writeOk)
  /\ MarkerEffect
  /\ pending' = << >>
  /\ UNCHANGED << mounted, viewVars, showSplash, mapInstance, fixPending,
                  geolocation, watching, fixThrew >>

NextBatched ==
  \/ Mount
  \/ ClosePage
  \/ HideSplash
  \/ QueueCurrentPosition
  \/ QueueWatchPosition
  \/ Render

SpecBatched == Init /\ [][NextBatched]_vars

(***************************************************************************)
(* The layered-content variant (src/unnamed/part_001) reads the same item.  *)
(***************************************************************************)
\* the initializer of its unlockedIds state: saved ? JSON.parse(saved) : []
LayeredInitialUnlockedIds(item) ==
  IF ~item.present \/ item.text = << >>
  THEN JsArray(<< >>)
  ELSE LET parsed == JSONparse(item.text)
       IN IF parsed.ok THEN parsed.v ELSE JsArray(<< >>)

\* UNLOCK_RADIUS and getDistanceMeters of part_001 are those of the main
\* variant, so its updateUnlockedLocations computes NearbyAt as well.

\* layerContent of InfoCard: [description, funFact, deeperHistory,
\* connections].filter(Boolean); the three locations have the four layers
LayerNames == << "description", "funFact", "deeperHistory", "connections" >>
LayerContent(id) == LayerNames
LayerCount(id) == Len(LayerContent(id))

\* handleNextLayer has no upper limit: the model stops at this index
MaxLayerIndex == 5

(* The stored values with which the variant runs: null, a number, a boolean *)
(* or an object is returned by the initializer as it is, and the render     *)
(* that follows the splash, or its marker effect, throws on                 *)
(* unlockedIds.length or unlockedIds.includes.                              *)
LayeredStoredItems ==
  { item \in StoredItems :
      LayeredInitialUnlockedIds(item).t \in {"array", "string"} }

InitLayered ==
  /\ Init
  /\ stored \in LayeredStoredItems

\* the save effect of part_001 (lines 218-224): storage errors are ignored
LayeredSaveEffect(ids, writeOk) ==
  /\ stored' = IF writeOk THEN SavedItem(ids) ELSE stored
  /\ saveThrew' = ~writeOk

LayeredMount ==
  /\ ~mounted
  /\ ~fixPending
  /\ ~watching
  /\ mounted' = TRUE
  /\ unlockedIds' = LayeredInitialUnlockedIds(stored)
  /\ \E writeOk \in BOOLEAN : LayeredSaveEffect(unlockedIds', writeOk)
  /\ UNCHANGED << unlockedIdsRef, viewVars, userPosition, mapVars >>

(* The splash timer fires and the map effect runs once (lines 272-360): the *)
(* click handlers of the markers are closures over the unlockedIds of this  *)
(* render, and the effect does not run again when unlockedIds changes (its  *)
(* dependencies are showSplash, getPinSize and updateUnlockedLocations).    *)
LayeredHideSplash ==
  /\ mounted
  /\ showSplash
  /\ showSplash' = FALSE
  /\ mapInstance' = TRUE
  /\ unlockedIdsRef' = unlockedIds
  /\ fixPending' = geolocation
  /\ watching' = geolocation
  /\ fixThrew' = FALSE
  /\ markers' = { }
  /\ UNCHANGED << stored, mounted, unlockedIds, saveThrew, viewVars,
                  userPosition, geolocation, pending >>

\* updateUnlockedLocations of part_001 (lines 237-250) and the save effect
LayeredUpdateUnlockedLocations(pos, writeOk) ==
  /\ unlockedIds' = MergeUnlocked(unlockedIds, NearbyAt[pos])
  /\ LayeredSaveEffect(unlockedIds', writeOk)
  /\ markers' = UnlockedIcons(unlockedIds')

\* success callback of getCurrentPosition: userLocationRef, then the update
LayeredCurrentPosition ==
  /\ mapInstance
  /\ fixPending
  /\ \E pos \in UserPositions, writeOk \in BOOLEAN :
       /\ userPosition' = pos
       /\ LayeredUpdateUnlockedLocations(pos, writeOk)
  /\ fixPending' = FALSE
  /\ UNCHANGED << mounted, unlockedIdsRef, viewVars, showSplash, mapInstance,
                  geolocation,
                  fixThrew, pending, watching >>

\* error callback of getCurrentPosition: () => {}
LayeredCurrentPositionError ==
  /\ mapInstance
  /\ fixPending
  /\ fixPending' = FALSE
  /\ UNCHANGED << mounted, storeVars, viewVars, userPosition, showSplash,
                  mapInstance, geolocation,
                  markers, fixThrew, pending, watching >>

(* Success callback of watchPosition.  The id that watchPosition returns is *)
(* not kept, so the callback also runs after the component was unmounted:   *)
(* it writes userLocationRef, and its setUnlockedIds is then ignored.       *)
LayeredWatchPosition ==
  /\ watching
  /\ \E pos \in UserPositions, writeOk \in BOOLEAN :
       /\ userPosition' = pos
       /\ IF mounted
          THEN LayeredUpdateUnlockedLocations(pos, writeOk)
          ELSE UNCHANGED << unlockedIds, stored, saveThrew, markers >>
  /\ UNCHANGED << mounted, unlockedIdsRef, viewVars, showSplash, mapInstance,
                  fixPending, geolocation, watching, fixThrew, pending >>

\* what the click handler of the marker of location id does to the view
\* (lines 296-303): if (unlockedIds.includes(location.id)) { ... }
LayeredTapResult(id) ==
  IF Includes(unlockedIdsRef, id)
  THEN [selectedLocation |-> id, infoLayer |-> 0]
  ELSE [selectedLocation |-> selectedLocation, infoLayer |-> infoLayer]

LayeredMarkerClick ==
  /\ mapInstance
  /\ \E id \in LocationIds :
       /\ selectedLocation' = LayeredTapResult(id).selectedLocation
       /\ infoLayer' = LayeredTapResult(id).infoLayer
  /\ UNCHANGED << mounted, storeVars, lockedLocation, showTracker, userPosition,
                  mapVars >>

\* the detail card is rendered: {selectedLocation && <InfoCard .../>}
LayeredInfoCardRendered == AppRendered /\ selectedLocation # NoLocation

\* handleCloseCard of part_001 (lines 370-373)
LayeredHandleCloseCard ==
  /\ LayeredInfoCardRendered
  /\ selectedLocation' = NoLocation
  /\ infoLayer' = 0
  /\ UNCHANGED << mounted, storeVars, lockedLocation, showTracker, userPosition,
                  mapVars >>

\* handlePrevLayer of part_001 (lines 375-377)
LayeredHandlePrevLayer ==
  /\ LayeredInfoCardRendered
  /\ infoLayer' = Max(0, infoLayer - 1)
  /\ UNCHANGED << mounted, storeVars, selectedLocation, lockedLocation, showTracker,
                  userPosition, mapVars >>

\* handleNextLayer of part_001 (lines 379-381): setInfoLayer(prev => prev + 1)
LayeredHandleNextLayer ==
  /\ LayeredInfoCardRendered
  /\ infoLayer < MaxLayerIndex
  /\ infoLayer' = infoLayer + 1
  /\ UNCHANGED << mounted, storeVars, selectedLocation, lockedLocation, showTracker,
                  userPosition, mapVars >>

(* The component is unmounted while the page stays open: the cleanup of the *)
(* map effect (lines 356-359) removes the map and nothing else; the         *)
(* geolocation requests stay, and userLocationRef stays with the callbacks  *)
(* that hold it.                                                            *)
LayeredTeardown ==
  /\ mounted
  /\ mounted' = FALSE
  /\ unlockedIds' = Undefined
  /\ unlockedIdsRef' = Undefined
  /\ selectedLocation' = NoLocation
  /\ infoLayer' = 0
  /\ showSplash' = TRUE
  /\ mapInstance' = FALSE
  /\ saveThrew' = FALSE
  /\ markers' = { }
  /\ UNCHANGED << stored, lockedLocation, showTracker, userPosition, fixPending,
                  geolocation, watching, fixThrew, pending >>

NextLayered ==
  \/ LayeredMount
  \/ ClosePage
  \/ LayeredTeardown
  \/ LayeredHideSplash
  \/ LayeredCurrentPosition
  \/ LayeredCurrentPositionError
  \/ LayeredWatchPosition
  \/ LayeredMarkerClick
  \/ LayeredHandleCloseCard
  \/ LayeredHandlePrevLayer
  \/ LayeredHandleNextLayer

SpecLayered == InitLayered /\ [][NextLayered]_vars

(***************************************************************************)
(* The 200 m variant (second module of src/src/App.tsx, lines 765-1010):    *)
(* no storage, no layers, and the markers of the locked locations are not   *)
(* on the map.                                                              *)
(***************************************************************************)
UNLOCK_RADIUS_200 == 200

\* getDistanceInMeters (lines 818-826) is the formula of getDistanceMeters
getDistanceInMeters(lat1, lng1, lat2, lng2) ==
  getDistanceMeters(lat1, lng1, lat2, lng2)

\* 163.8 m from the synagogue and from the Swedish Institute
PosBetween == << 4885625, 236030 >>

UserPositions200 == UserPositions \cup { PosBetween }

\* newUnlocked of updateUnlocked: the ids within the radius, in catalog order
NewUnlocked(userLat, userLng) ==
  SelectSeq(LOCATIONS,
            LAMBDA id : getDistanceInMeters(userLat, userLng, LocLat(id), LocLng(id))
                          <= UNLOCK_RADIUS_200 * 10)

NewUnlockedAt == [pos \in UserPositions200 |-> NewUnlocked(pos[1], pos[2])]

\* the initial state of the component: useState<string[]>([]) (line 835)
Mount200 ==
  /\ ~mounted
  /\ ~fixPending
  /\ ~watching
  /\ mounted' = TRUE
  /\ unlockedIds' = JsArray(<< >>)
  /\ UNCHANGED << stored, unlockedIdsRef, saveThrew, viewVars, userPosition,
                  mapVars >>

\* the splash timer fires and the map effect runs (lines 858-918)
HideSplash200 ==
  /\ mounted
  /\ showSplash
  /\ showSplash' = FALSE
  /\ mapInstance' = TRUE
  /\ fixPending' = geolocation
  /\ watching' = geolocation
  /\ UNCHANGED << storeVars, mounted, viewVars, userPosition, geolocation,
                  markers, fixThrew, pending >>

\* updateUnlocked (lines 847-855): setUnlockedIds(newUnlocked)
updateUnlocked(pos) == unlockedIds' = JsArray(NewUnlockedAt[pos])

\* success callback of getCurrentPosition (lines 878-894)
CurrentPosition200 ==
  /\ mapInstance
  /\ fixPending
  /\ \E pos \in UserPositions200 :
       /\ userPosition' = pos
       /\ updateUnlocked(pos)
  /\ fixPending' = FALSE
  /\ UNCHANGED << stored, unlockedIdsRef, saveThrew, mounted, viewVars,
                  showSplash, mapInstance, geolocation,
                  markers, fixThrew, pending, watching >>

\* error callback of getCurrentPosition (line 895): setIsLocating(false)
CurrentPositionError200 ==
  /\ mapInstance
  /\ fixPending
  /\ fixPending' = FALSE
  /\ UNCHANGED << storeVars, mounted, viewVars, userPosition, showSplash,
                  mapInstance, geolocation,
                  markers, fixThrew, pending, watching >>

\* success callback of watchPosition (lines 901-906)
WatchPosition200 ==
  /\ watching
  /\ \E pos \in UserPositions200 :
       /\ userPosition' = pos
       /\ updateUnlocked(pos)
  /\ UNCHANGED << stored, unlockedIdsRef, saveThrew, mounted, viewVars, mapVars >>

\* the marker effect (lines 921-960) keeps on the map the markers of the
\* locations that are unlocked or selected
MarkerOnMap200(id) == IsUnlocked(unlockedIds, id) \/ selectedLocation = id

\* click on a marker (lines 947-950): setSelectedLocation(loc)
MarkerClick200 ==
  /\ mapInstance
  /\ \E id \in LocationIds :
       /\ MarkerOnMap200(id)
       /\ selectedLocation' = id
  /\ UNCHANGED << storeVars, mounted, lockedLocation, infoLayer, showTracker,
                  userPosition, mapVars >>

\* click on the close button of the card (line 998)
CloseCard200 ==
  /\ AppRendered
  /\ selectedLocation # NoLocation
  /\ selectedLocation' = NoLocation
  /\ UNCHANGED << storeVars, mounted, lockedLocation, infoLayer, showTracker,
                  userPosition, mapVars >>

Next200 ==
  \/ Mount200
  \/ ClosePage
  \/ HideSplash200
  \/ CurrentPosition200
  \/ CurrentPositionError200
  \/ WatchPosition200
  \/ MarkerClick200
  \/ CloseCard200

Spec200 == Init /\ [][Next200]_vars

(***************************************************************************)
(* Vocabulary of the properties.                                            *)
(***************************************************************************)
Range(seq) == { seq[i] : i \in 1..Len(seq) }

\* the identifiers that the store holds: the elements of a list; for a value
\* that is not a list, the ids that its includes() answers for
IdsOf(value) ==
  IF value.t = "array" THEN Range(value.a)
  ELSE IF value.t = "string" THEN { id \in LocationIds : Includes(value, id) }
  ELSE { }

\* a step in which a position callback ran
PositionStep == CurrentPosition \/ WatchPosition

\* a step in which the initializers ran
LoadStep == ~mounted /\ mounted'

\* the item parses to a list
IsListItem(item) ==
  /\ item.present
  /\ item.text # << >>
  /\ JSONparse(item.text).ok
  /\ JSONparse(item.text).v.t = "array"

\* the lists that hold each catalog id at most once
CatalogLists ==
  { l \in ListsUpTo(LocationIds, Len(LOCATIONS)) : Cardinality(Range(l)) = Len(l) }

(***************************************************************************)
(* C1.  The unlock set never shrinks under a position update: every id      *)
(* held before a call of updateUnlockedLocations is held after it.          *)
(* Refuted from a store loaded from a stored JSON string (see C3).          *)
(***************************************************************************)
C1_UnlockSetNeverShrinks ==
  [][PositionStep => IdsOf(unlockedIds) \subseteq IdsOf(unlockedIds')]_vars

(***************************************************************************)
(* C2.  A position update at (lat, lng) changes the unlock set to exactly   *)
(* the old set united with the ids of the locations at a distance of at     *)
(* most UNLOCK_RADIUS, the boundary included.                               *)
(* Refuted from a store loaded from a stored JSON string (see C3).          *)
(***************************************************************************)
C2_UpdateIsUnionWithNearby ==
  [][PositionStep =>
       IdsOf(unlockedIds') =
         IdsOf(unlockedIds) \cup
           { id \in LocationIds :
               getDistanceMeters(userPosition'[1], userPosition'[2],
                                 LocLat(id), LocLng(id)) <= UNLOCK_RADIUS * 10 }]_vars

(***************************************************************************)
(* C3.  Loading falls back to the default list ['nicolas-flamel'] for every *)
(* stored value that is missing, is not parseable JSON, or parses to        *)
(* something that is not a list.                                            *)
(***************************************************************************)
C3_LoadFallsBackToDefault ==
  [][(LoadStep /\ ~IsListItem(stored)) => unlockedIds' = DefaultUnlocked]_vars

(***************************************************************************)
(* C4.  Every identifier of the in-memory unlock set is the id of a         *)
(* location of the catalog.                                                 *)
(***************************************************************************)
C4_OnlyCatalogIds == mounted => IdsOf(unlockedIds) \subseteq LocationIds

(***************************************************************************)
(* C5.  The guaranteed-default id 'nicolas-flamel' is unlocked in every     *)
(* state of a session.                                                      *)
(***************************************************************************)
C5_DefaultAlwaysUnlocked == mounted => IsUnlocked(unlockedIds, DefaultId)

(***************************************************************************)
(* C6 as stated.  Saving any list S of catalog ids and loading it gives     *)
(* back exactly S, the empty list and the lists without 'nicolas-flamel'    *)
(* included.                                                                *)
(***************************************************************************)
C6_RoundTripExact ==
  [][LoadStep =>
       \A S \in CatalogLists :
         stored = SavedItem(JsArray(S)) => unlockedIds' = JsArray(S)]_vars

(***************************************************************************)
(* C6 as amended.  Saving a list S of catalog ids and loading it gives back *)
(* exactly S when S contains 'nicolas-flamel', and S followed by            *)
(* 'nicolas-flamel' when it does not; the loader of the layered-content     *)
(* variant gives back exactly S.                                            *)
(***************************************************************************)
C6_RoundTripKeepsDefault ==
  [][LoadStep =>
       \A S \in CatalogLists :
         stored = SavedItem(JsArray(S)) =>
           /\ unlockedIds' =
                JsArray(IF SeqIncludes(S, DefaultId) THEN S ELSE Append(S, DefaultId))
           /\ LayeredInitialUnlockedIds(stored) = JsArray(S)]_vars

\* a session that has just loaded the saved list ['synagogue-pavee']
C6_Witness ==
  /\ mounted
  /\ userPosition = NoPosition
  /\ unlockedIds = JsArray(<< "synagogue-pavee", DefaultId >>)

(***************************************************************************)
(* C7.  While the last storage write succeeded, the stored item is the      *)
(* serialization of the in-memory unlock set, and loading it gives a set    *)
(* that contains every location unlocked in memory.                         *)
(***************************************************************************)
C7_StoredIsCurrentSet ==
  (mounted /\ ~saveThrew) =>
    /\ stored = SavedItem(unlockedIds)
    /\ \A id \in LocationIds :
         IsUnlocked(unlockedIds, id) => IsUnlocked(InitialUnlockedIds(stored), id)

\* a position update has unlocked the Swedish Institute and it has been saved
C7_Witness ==
  /\ mounted
  /\ ~saveThrew
  /\ userPosition = PosCafeEdge
  /\ IsUnlocked(unlockedIds, "cafe-suedois")
  /\ IsUnlocked(InitialUnlockedIds(stored), "cafe-suedois")

(***************************************************************************)
(* C8.  A storage write that throws is not propagated: in a position update *)
(* whose write throws, or that follows a write that threw, the component    *)
(* stays mounted, the in-memory set is the merge that was computed and the  *)
(* ref is that set; a marker tap after a failed write is decided by the     *)
(* in-memory set.                                                           *)
(***************************************************************************)
C8_WriteFailureNotPropagated ==
  [][/\ (PositionStep /\ (saveThrew \/ saveThrew')) =>
          /\ mounted'
          /\ unlockedIds' = MergeUnlocked(unlockedIds, NearbyAt[userPosition'])
          /\ unlockedIdsRef' = unlockedIds'
     /\ (MarkerClick /\ saveThrew) =>
          \E id \in LocationIds :
            IF IsUnlocked(unlockedIds, id)
            THEN selectedLocation' = id /\ lockedLocation' = NoLocation
            ELSE lockedLocation' = id /\ selectedLocation' = NoLocation]_vars

\* two position updates whose writes threw have unlocked two locations that
\* storage does not hold, and a tap has opened the detail card of one of them
C8_Witness ==
  /\ mounted
  /\ saveThrew
  /\ IsUnlocked(unlockedIds, "synagogue-pavee")
  /\ IsUnlocked(unlockedIds, "cafe-suedois")
  /\ ~IsUnlocked(InitialUnlockedIds(stored), "synagogue-pavee")
  /\ ~IsUnlocked(InitialUnlockedIds(stored), "cafe-suedois")
  /\ selectedLocation = "cafe-suedois"

(***************************************************************************)
(* C9.  A tap on a marker whose id is in the unlock set at the time of the  *)
(* tap selects the location at layer 0, with no locked location; a tap on   *)
(* a marker whose id is not in the unlock set sets the locked location,     *)
(* with no selected location.                                               *)
(***************************************************************************)
C9_TapDecidedByUnlockSet ==
  [][MarkerClick =>
       \E id \in LocationIds :
         IF IsUnlocked(unlockedIds, id)
         THEN /\ selectedLocation' = id
              /\ lockedLocation' = NoLocation
              /\ infoLayer' = 0
         ELSE /\ lockedLocation' = id
              /\ selectedLocation' = NoLocation]_vars

\* the Swedish Institute, unlocked at the edge of its radius, is shown in
\* detail at layer 0 while the synagogue is still locked
C9_Witness ==
  /\ mapInstance
  /\ userPosition = PosCafeEdge
  /\ selectedLocation = "cafe-suedois"
  /\ lockedLocation = NoLocation
  /\ infoLayer = 0
  /\ ~IsUnlocked(unlockedIds, "synagogue-pavee")

(***************************************************************************)
(* C10.  selectedLocation and lockedLocation are never both set, and at     *)
(* most one of the locked card, the detail card and the tracker panel is    *)
(* rendered.                                                                *)
(***************************************************************************)
C10_OneCardAtATime ==
  /\ ~(selectedLocation # NoLocation /\ lockedLocation # NoLocation)
  /\ ~(LockedCardRendered /\ InfoCardRendered)
  /\ ~(LockedCardRendered /\ TrackerRendered)
  /\ ~(InfoCardRendered /\ TrackerRendered)

\* the locked card of the synagogue is shown after the detail card of the
\* Flamel house had been browsed to another layer
C10_Witness ==
  /\ LockedCardRendered
  /\ lockedLocation = "synagogue-pavee"
  /\ infoLayer > 0

\* the index of the last layer of a location: its timeline events, then the
\* fun fact (InfoCard, lines 285-291: totalLayers = timeline.length + 1)
LastLayer(id) == TimelineLength(id)

(***************************************************************************)
(* C11.  Whenever a location is selected for the detail card, the layer     *)
(* index lies in 0 .. timeline.length of that location, whatever sequence   *)
(* of next, prev, close, marker taps and tracker-item clicks came before.   *)
(***************************************************************************)
C11_LayerWithinTimeline ==
  selectedLocation # NoLocation =>
    /\ 0 <= infoLayer
    /\ infoLayer <= TimelineLength(selectedLocation)

\* the detail card of the synagogue shows its last layer, the fun fact
C11_Witness ==
  /\ InfoCardRendered
  /\ selectedLocation = "synagogue-pavee"
  /\ infoLayer = LastLayer("synagogue-pavee")

(***************************************************************************)
(* C12.  Layer navigation: prev at index 0 leaves the index at 0; next at   *)
(* the last index leaves it at the last index; from every other index next  *)
(* adds one and prev subtracts one, so that next followed by prev is back   *)
(* at the original index.                                                   *)
(***************************************************************************)
C12_LayerNavigation ==
  [][/\ handlePrevLayer =>
          infoLayer' = (IF infoLayer = 0 THEN 0 ELSE infoLayer - 1)
     /\ handleNextLayer =>
          infoLayer' = (IF infoLayer = LastLayer(selectedLocation)
                        THEN infoLayer ELSE infoLayer + 1)
     /\ (handleNextLayer /\ infoLayer < LastLayer(selectedLocation)) =>
          Max(0, infoLayer' - 1) = infoLayer]_vars

\* the detail card of the Swedish Institute at an interior index
C12_Witness ==
  /\ InfoCardRendered
  /\ selectedLocation = "cafe-suedois"
  /\ infoLayer = 2

(***************************************************************************)
(* C13.  Opening the tracker panel and closing it, by the status badge or   *)
(* by the close button of the panel, leaves selectedLocation,               *)
(* lockedLocation and infoLayer unchanged; while the panel is open no card  *)
(* is rendered, and when it is closed the card of the location that is      *)
(* still set is rendered again.                                             *)
(***************************************************************************)
C13_TrackerKeepsCard ==
  [][(ToggleTracker \/ CloseTracker) =>
       /\ UNCHANGED << selectedLocation, lockedLocation, infoLayer >>
       /\ showTracker' => (~InfoCardRendered' /\ ~LockedCardRendered')
       /\ ~showTracker' =>
            /\ InfoCardRendered' <=> selectedLocation # NoLocation
            /\ LockedCardRendered' <=> lockedLocation # NoLocation]_vars

\* the panel is open over the detail card of the Swedish Institute, which
\* had been browsed to its fourth layer
C13_Witness ==
  /\ TrackerRendered
  /\ selectedLocation = "cafe-suedois"
  /\ infoLayer = 3

\* a step after which no position is available: a geolocation error callback,
\* or the creation of the map in a browser without navigator.geolocation
NoPositionStep ==
  \/ CurrentPositionError
  \/ WatchPositionError
  \/ (HideSplash /\ ~geolocation)

(***************************************************************************)
(* C14.  When no position is available (geolocation absent, the initial    *)
(* fix fails or times out, the watch reports an error) no proximity is      *)
(* computed: the step leaves the unlock set, its ref, the stored item and   *)
(* the user position unchanged and the component mounted; as long as no     *)
(* position has been reported the unlock set is the loaded one, and marker  *)
(* taps are decided by it.                                                  *)
(***************************************************************************)
C14_NoPositionNoProximity ==
  [][/\ NoPositionStep =>
          /\ UNCHANGED << unlockedIds, unlockedIdsRef, stored, userPosition >>
          /\ mounted'
     /\ (mounted' /\ userPosition' = NoPosition) =>
          /\ unlockedIds' = InitialUnlockedIds(stored')
          /\ unlockedIdsRef' = unlockedIds'
     /\ (MarkerClick /\ userPosition = NoPosition) =>
          \E id \in LocationIds :
            IF IsUnlocked(InitialUnlockedIds(stored), id)
            THEN selectedLocation' = id /\ infoLayer' = 0
            ELSE lockedLocation' = id /\ selectedLocation' = NoLocation]_vars

\* the initial fix has failed, no position was ever reported, and the detail
\* card of the Flamel house has been opened and browsed
C14_Witness ==
  /\ mapInstance
  /\ geolocation
  /\ ~fixPending
  /\ userPosition = NoPosition
  /\ selectedLocation = DefaultId
  /\ infoLayer = 2

\* the filter of updateUnlockedLocations for a radius given in metres
WithinRadius(pos, id, radius) ==
  getDistanceMeters(pos[1], pos[2], LocLat(id), LocLng(id)) <= radius * 10

\* the distance, in decimetres, of the Flamel house from the point 0.00135
\* degree due north of it
FlamelNorthDistance ==
  getDistanceMeters(PosFlamelNorth[1], PosFlamelNorth[2],
                    LocLat(DefaultId), LocLng(DefaultId))

(***************************************************************************)
(* C16 as stated.  For the user at (48.8619 + 0.00135, 2.3549) the distance *)
(* to the Flamel house is at most 151 m, a position update there unlocks    *)
(* the house at radius 150 m and does not unlock it at radius 100 m.        *)
(***************************************************************************)
C16_FlamelNorthUnlocksAt150 ==
  [][(PositionStep /\ userPosition' = PosFlamelNorth) =>
       /\ FlamelNorthDistance <= 151 * 10
       /\ WithinRadius(PosFlamelNorth, DefaultId, UNLOCK_RADIUS)
       /\ SeqIncludes(NearbyAt[PosFlamelNorth], DefaultId)
       /\ ~WithinRadius(PosFlamelNorth, DefaultId, 100)]_vars

(***************************************************************************)
(* C16 as amended.  For the user at (48.8619 + 0.00135, 2.3549) the         *)
(* distance to the Flamel house is more than 150 m and at most 151 m: a     *)
(* position update there adds nothing to the unlock set at radius 150 m,    *)
(* the house is not within radius 100 m either, and it is within radius     *)
(* 200 m.                                                                   *)
(***************************************************************************)
C16_FlamelNorthJustOutside ==
  [][(PositionStep /\ userPosition' = PosFlamelNorth) =>
       /\ FlamelNorthDistance <= 151 * 10
       /\ FlamelNorthDistance > UNLOCK_RADIUS * 10
       /\ ~WithinRadius(PosFlamelNorth, DefaultId, UNLOCK_RADIUS)
       /\ ~SeqIncludes(NearbyAt[PosFlamelNorth], DefaultId)
       /\ unlockedIds' = MergeUnlocked(unlockedIds, << >>)
       /\ ~WithinRadius(PosFlamelNorth, DefaultId, 100)
       /\ WithinRadius(PosFlamelNorth, DefaultId, 200)]_vars

\* a position update at that point has left the Flamel house locked, in a
\* session whose store had lost it (see C3)
C16_Witness ==
  /\ mounted
  /\ userPosition = PosFlamelNorth
  /\ ~IsUnlocked(unlockedIds, DefaultId)

(***************************************************************************)
(* C20.  A position update that leaves the unlock set as it was, because    *)
(* every nearby location is already unlocked or no location is nearby,      *)
(* causes no write to storage: the stored item and the outcome of the last  *)
(* write stay as they were.                                                 *)
(***************************************************************************)
C20_WriteOnlyOnChange ==
  [][(PositionStep /\ unlockedIds' = unlockedIds) =>
       UNCHANGED << stored, saveThrew >>]_vars

(***************************************************************************)
(* C15.  When the map view is torn down the position-stream subscription   *)
(* is released: while the component is not mounted no watchPosition         *)
(* subscription is registered, so no callback of the stream can run.        *)
(* Stated for the layered-content variant.                                  *)
(***************************************************************************)
C15_WatchReleasedOnTeardown == ~mounted => ~watching

(***************************************************************************)
(* C17.  In the 200 m variant a position update never removes from          *)
(* unlockedIds a location that an earlier position update unlocked.         *)
(***************************************************************************)
C17_UnlockingMonotonic200 ==
  [][(CurrentPosition200 \/ WatchPosition200) =>
       IdsOf(unlockedIds) \subseteq IdsOf(unlockedIds')]_vars

(***************************************************************************)
(* C18.  In the layered-content variant, whenever the map exists, a tap on  *)
(* the marker of a location whose id is in the unlock set opens its detail  *)
(* card at layer 0, also for the ids that a position update unlocked after  *)
(* the map and its click handlers were created.                             *)
(***************************************************************************)
C18_TapOpensEveryUnlocked ==
  mapInstance =>
    \A id \in LocationIds :
      IsUnlocked(unlockedIds, id) =>
        LayeredTapResult(id) = [selectedLocation |-> id, infoLayer |-> 0]

(***************************************************************************)
(* C19.  In the layered-content variant handleNextLayer keeps the layer     *)
(* index within 0 .. layerCount - 1: applied at the last index it leaves    *)
(* the index unchanged.                                                     *)
(***************************************************************************)
C19_NextKeepsLayerInRange ==
  [][LayeredHandleNextLayer =>
       /\ 0 <= infoLayer'
       /\ infoLayer' <= LayerCount(selectedLocation) - 1
       /\ infoLayer = LayerCount(selectedLocation) - 1 => infoLayer' = infoLayer]_vars

(***************************************************************************)
(* C21.  Whenever no location is selected for the detail card, that is,     *)
(* while the locked card is shown or no card is shown, infoLayer is 0.      *)
(***************************************************************************)
C21_LayerZeroUnlessSelected ==
  selectedLocation = NoLocation => infoLayer = 0

(***************************************************************************)
(* C23.  Whenever the locked card is showing a location, that location is   *)
(* not in the unlock set.                                                   *)
(***************************************************************************)
C23_LockedCardShowsLocked ==
  LockedCardRendered => ~IsUnlocked(unlockedIds, lockedLocation)

(***************************************************************************)
(* C24.  Whenever a location is selected for the detail card, its id is in  *)
(* the unlock set.                                                          *)
(* Refuted from a store loaded from a stored JSON string (see C3).          *)
(***************************************************************************)
C24_SelectedIsUnlocked ==
  selectedLocation # NoLocation => IsUnlocked(unlockedIds, selectedLocation)

\* getStatusText (lines 641-649) answers 'All discovered!': the test of its
\* first line, unlockedIds.length === LOCATIONS.length
AllDiscoveredShown == JsLength(unlockedIds) = Len(LOCATIONS)

(***************************************************************************)
(* C27.  In a session, the status badge shows 'All discovered!' if and     *)
(* only if every catalog location is in the unlock set, and unlockedIds     *)
(* never has more entries than the catalog has locations.                   *)
(***************************************************************************)
C27_AllDiscoveredIffAll ==
  mounted =>
    /\ AllDiscoveredShown <=> (\A id \in LocationIds : IsUnlocked(unlockedIds, id))
    /\ JsLength(unlockedIds) <= Len(LOCATIONS)

(***************************************************************************)
(* C22.  Whenever the map exists, the marker of each location has the       *)
(* unlocked icon if and only if its id is in the unlock set: after the      *)
(* effects of every position update and after every zoom change.            *)
(***************************************************************************)
C22_MarkersFollowUnlockSet ==
  mapInstance =>
    \A id \in LocationIds : id \in markers <=> IsUnlocked(unlockedIds, id)

\* a position update has given the marker of the Swedish Institute the
\* unlocked icon, and the synagogue's marker is still locked
C22_Witness ==
  /\ mapInstance
  /\ userPosition = PosCafeEdge
  /\ markers = { DefaultId, "cafe-suedois" }

\* the union of the nearby sets of the queued callbacks
NearbyOfAll(positions) ==
  UNION { Range(NearbyAt[positions[i]]) : i \in 1..Len(positions) }

(***************************************************************************)
(* C25.  When several position callbacks are processed before the           *)
(* component renders, the unlock set after the render is the set before     *)
(* it united with the nearby sets of all those callbacks.                   *)
(* Refuted from a store loaded from a stored JSON string (see C3).          *)
(***************************************************************************)
C25_NoUnlockLostInBatch ==
  [][Render =>
       IdsOf(unlockedIds') = IdsOf(unlockedIds) \cup NearbyOfAll(pending)]_vars

(***************************************************************************)
(* C26.  The success callback of getCurrentPosition delivered after the     *)
(* teardown does not use the map, adds no marker, changes no state and      *)
(* does not throw.                                                          *)
(***************************************************************************)
C26_LateFixIgnored ==
  [][CurrentPositionAfterTeardown =>
       UNCHANGED << fixThrew, markers, unlockedIds, userPosition, stored >>]_vars

\* a step of the view: a tap, a click, a layer change, a close, a zoom change
ViewStep ==
  \/ MarkerClick
  \/ TrackerItemClick
  \/ handlePrevLayer
  \/ handleNextLayer
  \/ handleCloseCard
  \/ CloseLockedCard
  \/ ToggleTracker
  \/ CloseTracker
  \/ ZoomEnd

(***************************************************************************)
(* C28.  Marker taps, tracker-item clicks, layer navigation, card close,    *)
(* tracker open and close and zoom changes leave the in-memory unlock set,  *)
(* its ref and the stored item unchanged; while the component stays         *)
(* mounted, only position updates change the unlock set or the stored item. *)
(***************************************************************************)
C28_OnlyPositionsChangeStore ==
  [][/\ ViewStep => UNCHANGED << unlockedIds, unlockedIdsRef, stored >>
     /\ (mounted /\ mounted' /\ << unlockedIds, stored >>' # << unlockedIds, stored >>)
          => PositionStep]_vars

\* after a position update that unlocked the Swedish Institute, the locked
\* card of the synagogue was opened and the tracker opened over it
C28_Witness ==
  /\ TrackerRendered
  /\ lockedLocation = "synagogue-pavee"
  /\ userPosition = PosCafeEdge
  /\ ~saveThrew
  /\ unlockedIds = JsArray(<< DefaultId, "cafe-suedois" >>)

====
